---- MODULE Spec2Model ----
(***************************************************************************)
(* The proc-macro-server client of the language server: the lifecycle      *)
(* controller (client/controller.rs), the client and its request table     *)
(* (client/mod.rs), the response-drain job (idle_job.rs), and the threads  *)
(* that run around them: one detached bootstrap thread per initialization  *)
(* attempt, worker threads that send expansion requests through a client   *)
(* handle read from a database snapshot, and the server process behind     *)
(* each connection.                                                         *)
(***************************************************************************)
EXTENDS Integers, Sequences, FiniteSets, TLC

\* ------------------------------------------------------------------ bounds
\* Clients (server processes) the controller may create in one run.
MaxClients == 3
\* Tracked expansion requests issued on one client.
MaxRequests == 1
\* Worker threads holding a database snapshot at the same time.
MaxWorkers == 1
\* Worker tasks sending on one client at once, when senders are checked on
\* their own.
MaxSenders == 2
\* Requests those senders issue on the client.
MaxSends == 3
\* Failed events the controller consumes in one run.
MaxFailures == 4
\* Sends on one client after its transport went down, beyond MaxRequests.
MaxFailedSends == 1
\* Responses buffered on the channel when the drain job runs alone (SpecDrain).
MaxBatch == 2
\* The reading of the system clock, in milliseconds (SpecDebounce).
MaxTime == 25
\* Calls of run_debounced in one run (SpecDebounce).
MaxRuns == 3
\* Database swaps in one run.
MaxSwaps == 1
\* Requests issued on a client before its fetch_defined_macros (SpecFetch).
MaxPrior == 1

\* ------------------------------------------------------- program constants
\* ProcMacroClientController::new: retries_left: 3.
RetryBudget == 3
\* retries_left is a u8.
U8Modulus == 256
\* State::new: Debouncer::new(Duration::from_millis(10)).
Interval == 10

Clients == 1..MaxClients
Workers == 1..MaxWorkers
NoClient == 0

\* The first id a fresh IdGenerator issues. The generator's source is not part
\* of the files at hand; the messages of fetch_defined_macros count from zero,
\* and a generator counting from one is the other reading of "strictly
\* increasing": the model is checked for both.
FirstIds == {0, 1}

Kinds == {"Attribute", "Derive", "Inline"}
Params == {"p1"}
Results == {"r1"}
Manifests == {"mA"}
Malformed == "malformed"

\* URIs the editor may have open, the files they name (two URIs of one file, and
\* one URI that names no file), and the contents an override may hold.
Uris == {"u1", "u2", "u3", "u4"}
Files == {"f1", "f2"}
Contents == {"c1", "c2"}
StaticPlugin == "static"

\* ------------------------------------------------------------------ state
VARIABLES
    first_id,                  \* IdGenerator: the first id it issues
    disable_proc_macros,       \* Config::disable_proc_macros
    status,                    \* db.proc_macro_client_status()
    status_change,             \* ProcMacroClientController::status_change (the mailbox)
    retries_left,              \* ProcMacroClientController::retries_left
    nclients,                  \* ProcMacroClient values created so far
    boot,                      \* per client: the bootstrap thread's position / result
    boot_id,                   \* per client: the id fetch_defined_macros obtained
    boot_response,             \* per client: what its blocking receive returned
    id_generator,              \* per client: IdGenerator's counter (next id)
    connected,                 \* per client: the transport to the server is up
    requester,                 \* per client: requests the server holds unanswered
    responder,                 \* per client: responses buffered on the inbound channel
    requests_params,           \* per client: the correlation table
    poisoned,                  \* per client: the table's mutex is poisoned
    worker,                    \* per worker thread: its snapshot's client and position
    attribute_macro_resolution,
    derive_macro_resolution,
    inline_macro_resolution,
    macro_plugins,             \* db.macro_plugins(): a Vec
    inline_macro_plugins,      \* db.inline_macro_plugins(): keyed by macro name
    failures,                  \* Failed events consumed so far
    swaps,                     \* database swaps so far
    call,                      \* the outcome of the step, if it was a call on the main thread
    clock,                     \* SystemTime::now(), in milliseconds
    last_run,                  \* Debouncer::last_run
    runs,                      \* calls of run_debounced so far
    open_files,                \* State::open_files: the URIs of the open files
    interned,                  \* db: the files it has interned; a FileId is a position
    file_overrides,            \* db.file_overrides(): FileId -> content
    last_written,              \* the event of the last mailbox write since the last take
    unread,                    \* mailbox writes since the last take (counted up to 2)
    arcs,                      \* the Arc cells of State::open_files and State::config, and who holds them
    task,                      \* a computation under catch_panics, and what catch_panics returned
    last_replace,              \* State::last_replace: the time of the last database swap
    swap_log,                  \* what the last call of swap_database did, in order
    old_clients                \* the clients made before the last database swap

vars == <<first_id, disable_proc_macros, status, status_change,
          retries_left, nclients, boot, boot_id, boot_response, id_generator, connected, requester,
          responder, requests_params, poisoned, worker, attribute_macro_resolution,
          derive_macro_resolution, inline_macro_resolution, macro_plugins,
          inline_macro_plugins, failures, swaps, call, clock, last_run, runs, open_files, interned,
          file_overrides, last_written, unread, arcs, task,
                   last_replace, swap_log, old_clients>>

\* ------------------------------------------------------------------ values
\* Option<ClientStatusChange>::None and the three ClientStatusChange variants.
None == [kind |-> "None", client |-> NoClient, macros |-> "none"]
Failed == [kind |-> "Failed", client |-> NoClient, macros |-> "none"]
FatalFailed == [kind |-> "FatalFailed", client |-> NoClient, macros |-> "none"]
ReadyChange(macros, c) == [kind |-> "Ready", client |-> c, macros |-> macros]

\* ClientStatus.
Disabled == [kind |-> "Disabled", client |-> NoClient]
Initializing == [kind |-> "Initializing", client |-> NoClient]
InitializingFailed == [kind |-> "InitializingFailed", client |-> NoClient]
Ready(c) == [kind |-> "Ready", client |-> c]

EmptyMap == [x \in {} |-> "none"]
MapInsert(f, k, v) == [x \in (DOMAIN f) \cup {k} |-> IF x = k THEN v ELSE f[x]]
MapRemove(f, k) == [x \in (DOMAIN f) \ {k} |-> f[x]]

\* Of the blocking receive of a bootstrap thread: it has not returned, or it
\* returned an error.
NotReceived == [id |-> 0, value |-> "not received"]
RecvError == [id |-> 0, value |-> "recv error"]

\* The outcome of a call on the main thread: what it returned, whether it
\* panicked, the responses it took from the channel, and the resolution maps
\* it wrote to the database (set_*_resolution).
NoCall == [op |-> "none", result |-> FALSE, panic |-> FALSE, taken |-> <<>>, written |-> {}]
Outcome(op, m) ==
    [op |-> op, result |-> m.result, panic |-> m.panic, taken |-> m.taken,
     written |-> m.written]

\* What the event loop sees of a hook: a call that returned false (no panic,
\* nothing written) is to it as no call.
Seen(op, m) == IF m.result \/ m.panic THEN Outcome(op, m) ELSE NoCall

IdleWorker == [pc |-> "idle", client |-> NoClient, id |-> 0, kind |-> "none", params |-> "none"]

\* ------------------------------------------------------------ the mailbox
\* A mailbox whose unread event is kept when another is written.
UpdateKeepsUnread(cell, change) == IF cell.kind = "None" THEN change ELSE cell

\* ProcMacroClientStatusChange::update: the cell holds the new change, whatever
\* it held.
Update(cell, change) == change

\* ProcMacroClientStatusChange::changed: Option::take.
Changed(cell) == [value |-> cell, cell |-> None]

\* Writes since the last take are counted up to two: none, one, overwritten.
CountWrite(n) == IF n < 2 THEN n + 1 ELSE n

\* ------------------------------------------------- the response-drain job
\* idle_job.rs parse: Some(result) unless the payload fails to deserialize.
Parses(value) == value # Malformed

\* HashMapChangeTracker::insert: the entry is set and the map marked changed,
\* whatever the map held for the key.
TrackerInsert(t, key, value) == [inner |-> MapInsert(t.inner, key, value), changed |-> TRUE]

\* A tracker that hands out its map whether or not it is marked changed.
InnerAlways(t) == [some |-> TRUE, value |-> t.inner]

\* HashMapChangeTracker::inner_if_changed: Some(inner) if the tracker is marked
\* changed.
InnerIfChanged(t) == [some |-> t.changed, value |-> t.inner]

\* if let Some(resolution) = inner_if_changed() { db.set_*_resolution(resolution) }
WriteBack(old, t) == IF InnerIfChanged(t).some THEN InnerIfChanged(t).value ELSE old

\* The tracker of the resolution map of a request kind.
Tracker(d, kind) ==
    CASE kind = "Attribute" -> d.attribute
      [] kind = "Derive" -> d.derive
      [] kind = "Inline" -> d.inline

\* A loop body that gives up the batch on a payload that does not deserialize.
ResolveOrAbort(d, kind, params, response) ==
    IF ~Parses(response.value) THEN [d EXCEPT !.panic = TRUE]
    ELSE CASE kind = "Attribute" ->
                [d EXCEPT !.attribute = TrackerInsert(@, params, response.value)]
           [] kind = "Derive" ->
                [d EXCEPT !.derive = TrackerInsert(@, params, response.value)]
           [] kind = "Inline" ->
                [d EXCEPT !.inline = TrackerInsert(@, params, response.value)]

\* The tracker of kind gets the parsed result of response under the key params.
Resolve(d, kind, params, response) ==
    IF ~Parses(response.value) THEN d
    ELSE CASE kind = "Attribute" ->
                [d EXCEPT !.attribute = TrackerInsert(@, params, response.value)]
           [] kind = "Derive" ->
                [d EXCEPT !.derive = TrackerInsert(@, params, response.value)]
           [] kind = "Inline" ->
                [d EXCEPT !.inline = TrackerInsert(@, params, response.value)]

\* An iteration that passes over a response whose id has no entry.
DrainOneSkipsUnknown(d, response) ==
    IF response.id \notin DOMAIN d.requests
    THEN [d EXCEPT !.result = TRUE]
    ELSE LET entry == d.requests[response.id]
             d1 == [d EXCEPT !.result = TRUE, !.requests = MapRemove(@, response.id)]
         IN  Resolve(d1, entry.kind, entry.params, response)

\* An iteration that takes the responses to answer the requests in the order
\* of their ids, whatever id a response carries.
DrainOneInOrder(d, response) ==
    IF DOMAIN d.requests = {}
    THEN [d EXCEPT !.result = TRUE, !.panic = TRUE]
    ELSE LET id == CHOOSE i \in DOMAIN d.requests : \A j \in DOMAIN d.requests : i <= j
             entry == d.requests[id]
             d1 == [d EXCEPT !.result = TRUE, !.requests = MapRemove(@, id)]
         IN  Resolve(d1, entry.kind, entry.params, response)

\* One iteration of the loop over client.available_responses(): the entry of the
\* response's id is removed from the table; without an entry the job panics
\* (todo!) with the table locked; a parsed result goes to the map of the
\* request's kind.
DrainOne(d, response) ==
    IF response.id \notin DOMAIN d.requests
    THEN [d EXCEPT !.result = TRUE, !.panic = TRUE]
    ELSE LET entry == d.requests[response.id]
             d1 == [d EXCEPT !.result = TRUE, !.requests = MapRemove(@, response.id)]
         IN  Resolve(d1, entry.kind, entry.params, response)

\* The loop: responses are taken from the channel one by one until it is empty
\* or the job panics; what was not taken stays buffered.
RECURSIVE DrainLoop(_)
DrainLoop(d) ==
    IF d.panic \/ d.channel = <<>> THEN d
    ELSE DrainLoop(DrainOne([d EXCEPT !.channel = Tail(@)], Head(d.channel)))

\* The responses the loop took from the channel: what was buffered less what
\* is left.
Taken(buffered, left) == SubSeq(buffered, 1, Len(buffered) - Len(left))

\* The job past its status check, on the Ready client c: locking a poisoned
\* table panics; a panic inside the loop poisons the table and leaves the three
\* inputs unwritten; else each tracker marked changed is written to its input.
DrainClient(m, c) ==
    IF m.poisoned[c] THEN [m EXCEPT !.panic = TRUE]
    ELSE LET d == DrainLoop([requests |-> m.requests_params[c],
                             channel |-> m.responder[c],
                             attribute |-> [inner |-> m.attribute_macro_resolution, changed |-> FALSE],
                             derive |-> [inner |-> m.derive_macro_resolution, changed |-> FALSE],
                             inline |-> [inner |-> m.inline_macro_resolution, changed |-> FALSE],
                             result |-> FALSE,
                             panic |-> FALSE])
         IN  IF d.panic
             THEN [m EXCEPT !.panic = TRUE,
                            !.poisoned[c] = TRUE,
                            !.requests_params[c] = d.requests,
                            !.responder[c] = d.channel,
                            !.taken = Taken(m.responder[c], d.channel)]
             ELSE [m EXCEPT !.requests_params[c] = d.requests,
                            !.responder[c] = d.channel,
                            !.taken = Taken(m.responder[c], d.channel),
                            !.attribute_macro_resolution = WriteBack(@, d.attribute),
                            !.derive_macro_resolution = WriteBack(@, d.derive),
                            !.inline_macro_resolution = WriteBack(@, d.inline),
                            !.written = {k \in Kinds : InnerIfChanged(Tracker(d, k)).some},
                            !.result = d.result]

\* A job without the status check: it drains the first client whatever the
\* status.
ApplyResponsesUnchecked(m) == DrainClient(m, 1)

\* A drain job whose available_responses leaves on the channel what it
\* returned.
ApplyResponsesRebuffers(m) ==
    IF m.status.kind # "Ready" THEN [m EXCEPT !.result = FALSE]
    ELSE [DrainClient(m, m.status.client) EXCEPT
              !.responder[m.status.client] = m.responder[m.status.client]]

\* apply_proc_macro_server_responses on the main thread's state m. Nothing
\* happens unless the status is Ready.
ApplyResponses(m) ==
    IF m.status.kind # "Ready" THEN [m EXCEPT !.result = FALSE]
    ELSE DrainClient(m, m.status.client)

\* ---------------------------------------------------------- the debouncer
\* Debouncer::new at the time now: last_run is one interval in the past.
DebouncerNew(time, now) == now - time

\* A debouncer that runs the job only after more than the interval.
RunDebouncedStrictly(time, last, now, later) ==
    IF now < last THEN [panic |-> TRUE, ran |-> FALSE, last_run |-> last]
    ELSE IF now - last > time THEN [panic |-> FALSE, ran |-> TRUE, last_run |-> later]
    ELSE [panic |-> FALSE, ran |-> FALSE, last_run |-> last]

\* Debouncer::run_debounced. now is the clock read by last_run.elapsed(), which
\* is an error (unwrapped: a panic) if last_run is later than now; later is
\* the clock read for the new last_run when the job is to run.
RunDebouncedOn(time, last, now, later) ==
    IF now < last THEN [panic |-> TRUE, ran |-> FALSE, last_run |-> last]
    ELSE IF now - last >= time THEN [panic |-> FALSE, ran |-> TRUE, last_run |-> later]
    ELSE [panic |-> FALSE, ran |-> FALSE, last_run |-> last]

\* ------------------------------------------------ the lifecycle controller
\* A controller that gives up one failure early.
ShouldInitializeOneShort(retries, checks) ==
    IF retries = 0 /\ checks
    THEN [panic |-> TRUE, retries_left |-> retries, result |-> FALSE]
    ELSE LET r == (retries - 1) % U8Modulus
         IN  [panic |-> FALSE, retries_left |-> r, result |-> r > 1]

\* ProcMacroClientController::should_initialize: retries_left -= 1 on a u8 (a
\* panic under overflow checks when it is 0, a wrap to 255 without them), then
\* retries_left != 0.
ShouldInitialize(retries, checks) ==
    IF retries = 0 /\ checks
    THEN [panic |-> TRUE, retries_left |-> retries, result |-> FALSE]
    ELSE LET r == (retries - 1) % U8Modulus
         IN  [panic |-> FALSE, retries_left |-> r, result |-> r # 0]

\* An initialize that sets the status before it knows whether the spawn worked.
InitializeMarksFirst(m, spawn_ok) ==
    IF m.disable_proc_macros THEN m
    ELSE IF spawn_ok
         THEN [m EXCEPT !.nclients = @ + 1,
                        !.status = Initializing,
                        !.boot = IF m.nclients + 1 \in DOMAIN @
                                 THEN [@ EXCEPT ![m.nclients + 1] = "send"] ELSE @]
         ELSE [m EXCEPT !.status = Initializing,
                        !.status_change = Update(@, FatalFailed),
                        !.last_written = FatalFailed,
                        !.unread = CountWrite(@)]

\* An initialize that does not look at the configuration.
InitializeWhateverConfig(m, spawn_ok) ==
    IF spawn_ok
    THEN [m EXCEPT !.nclients = @ + 1,
                   !.status = Initializing,
                   !.boot = IF m.nclients + 1 \in DOMAIN @
                            THEN [@ EXCEPT ![m.nclients + 1] = "send"] ELSE @]
    ELSE [m EXCEPT !.status_change = Update(@, FatalFailed),
                   !.last_written = FatalFailed,
                   !.unread = CountWrite(@)]

\* ProcMacroClientController::initialize. spawn_ok is the result of
\* scarb.proc_macro_server(). With the spawn done a new client is made, the
\* status set to Initializing and the bootstrap thread started; without it
\* FatalFailed is written to the mailbox.
Initialize(m, spawn_ok) ==
    IF m.disable_proc_macros THEN m
    ELSE IF spawn_ok
         THEN [m EXCEPT !.nclients = @ + 1,
                        !.status = Initializing,
                        !.boot = IF m.nclients + 1 \in DOMAIN @
                                 THEN [@ EXCEPT ![m.nclients + 1] = "send"] ELSE @]
         ELSE [m EXCEPT !.status_change = Update(@, FatalFailed),
                        !.last_written = FatalFailed,
                        !.unread = CountWrite(@)]

\* proc_macro_plugin_suite: one ProcMacroPlugin for the manifest, and one inline
\* plugin entry per inline macro the manifest names.
ProcMacroPluginSuite(macros) == [plugins |-> <<macros>>, inline_macro_plugins |-> {macros}]

\* A Ready arm that sets the plugins of the new instance in place of those
\* registered.
RegisterReadyReplaces(m, change) ==
    LET plugin == ProcMacroPluginSuite(change.macros)
    IN  [m EXCEPT !.macro_plugins = plugin.plugins,
                  !.inline_macro_plugins = plugin.inline_macro_plugins,
                  !.status = Ready(change.client)]

\* The Ready arm of update_state: both plugin sets are extended, then the status
\* holds the client.
RegisterReady(m, change) ==
    LET plugin == ProcMacroPluginSuite(change.macros)
    IN  [m EXCEPT !.macro_plugins = @ \o plugin.plugins,
                  !.inline_macro_plugins = @ \cup plugin.inline_macro_plugins,
                  !.status = Ready(change.client)]

\* A controller that handles FatalFailed as it handles Failed.
UpdateStateFatalRetries(m, change, spawn_ok, checks) ==
    CASE change.kind \in {"Failed", "FatalFailed"} ->
            LET s == ShouldInitialize(m.retries_left, checks)
            IN  IF s.panic THEN [m EXCEPT !.panic = TRUE]
                ELSE IF s.result
                     THEN Initialize([m EXCEPT !.retries_left = s.retries_left], spawn_ok)
                     ELSE [m EXCEPT !.retries_left = s.retries_left,
                                    !.status = InitializingFailed]
      [] change.kind = "Ready" -> RegisterReady(m, change)

\* ProcMacroClientController::update_state. checks tells whether the build
\* panics on the u8 underflow of should_initialize.
UpdateState(m, change, spawn_ok, checks) ==
    CASE change.kind = "Failed" ->
            LET s == ShouldInitialize(m.retries_left, checks)
            IN  IF s.panic THEN [m EXCEPT !.panic = TRUE]
                ELSE IF s.result
                     THEN Initialize([m EXCEPT !.retries_left = s.retries_left], spawn_ok)
                     ELSE [m EXCEPT !.retries_left = s.retries_left,
                                    !.status = InitializingFailed]
      [] change.kind = "FatalFailed" -> [m EXCEPT !.status = InitializingFailed]
      [] change.kind = "Ready" -> RegisterReady(m, change)

\* ProcMacroClientController::maybe_update_state: the mailbox is taken; a change
\* found there is applied; then the drain job runs (unless the call has
\* panicked before reaching it).
MaybeUpdateStateOn(m, spawn_ok, checks) ==
    LET taken == Changed(m.status_change)
        m0 == [m EXCEPT !.status_change = taken.cell,
                        !.last_written = None,
                        !.unread = 0,
                        !.failures = IF taken.value = Failed THEN @ + 1 ELSE @]
        m1 == IF taken.value = None THEN m0 ELSE UpdateState(m0, taken.value, spawn_ok, checks)
        m2 == IF m1.panic THEN m1 ELSE ApplyResponses(m1)
    IN  [m2 EXCEPT !.result = (~m2.panic) /\ (m2.result \/ taken.value # None)]

\* ProcMacroClientController::initialize_if_enabled_now.
InitializeIfEnabledNowOn(m, spawn_ok) ==
    IF m.status.kind = "Disabled" THEN Initialize(m, spawn_ok) ELSE m

\* The long id of the file a URI names, if any.
UrlFile(uri) ==
    CASE uri \in {"u1", "u3"} -> "f1"
      [] uri = "u2" -> "f2"
      [] OTHER -> "none"

\* The FileId of a file in a database's intern table.
Intern(table, file) == CHOOSE id \in DOMAIN table : table[id] = file

\* db.file_for_url: the FileId of the file the URI names; 0 where the URI names
\* no file or a file the database has not seen (which has no override).
FileForUrl(table, uri) ==
    IF \E id \in DOMAIN table : table[id] = UrlFile(uri)
    THEN Intern(table, UrlFile(uri)) ELSE 0

\* The intern tables a fresh database may have once ensure_exists_in_db has
\* interned the files of the open URIs, in the order the HashSet yields them.
NewTables(open) ==
    LET files == {UrlFile(uri) : uri \in open} \ {"none"}
    IN  {table \in [1..Cardinality(files) -> files] :
            \A i, j \in DOMAIN table : table[i] = table[j] => i = j}

\* An ensure_exists_in_db that keeps the FileId a file had in the old database.
EnsureExistsUntranslated(table, old_table, overrides, open) ==
    LET kept == {old \in DOMAIN overrides :
                    \E uri \in open : FileForUrl(old_table, uri) = old}
    IN  [id \in kept |-> overrides[id]]

\* ensure_exists_in_db: the overrides of the new database are those of the
\* open URIs whose file has an override in the old one, under the FileId the
\* file has in the new database (lookup_intern in the old, intern in the new).
EnsureExistsInDb(table, old_table, overrides, open) ==
    LET kept == {old \in DOMAIN overrides :
                    \E uri \in open : FileForUrl(old_table, uri) = old}
    IN  [id \in {Intern(table, old_table[old]) : old \in kept} |->
            overrides[Intern(old_table, table[id])]]

\* swap_database: state.db becomes a fresh database, whose client status,
\* resolution maps and plugin sets are those of a new database, and whose file
\* overrides are those ensure_exists_in_db sets; table is its intern table.
SwapDatabaseOn(m, table) ==
    [m EXCEPT !.interned = table,
              !.file_overrides = EnsureExistsInDb(table, m.interned, @, m.open_files),
              !.status = Disabled,
              !.attribute_macro_resolution = EmptyMap,
              !.derive_macro_resolution = EmptyMap,
              !.inline_macro_resolution = EmptyMap,
              !.macro_plugins = <<StaticPlugin>>,
              !.inline_macro_plugins = {StaticPlugin},
              !.swaps = @ + 1,
              !.old_clients = m.nclients]

\* ------------------------------------------------ owned values, snapshots
\* Snapshots of the state alive at once.
MaxSnapshots == 2

Snapshots == 1..MaxSnapshots

\* The fields of State held as Owned values.
Fields == {"open_files", "config"}

\* The Arc cells a field may occupy: the owner's and one for each snapshot.
Cells == 1..(MaxSnapshots + 1)

\* The values of a field: the set of open URIs, and of the config whether
\* proc macros are disabled.
FieldValues == [open_files |-> SUBSET {"u1", "u2"}, config |-> BOOLEAN]

\* Default::default() of a field.
FieldDefault == [open_files |-> {}, config |-> FALSE]

\* The Arcs of a snapshot slot that holds none.
NoSnapshot == [open_files |-> 0, config |-> 0]

\* State::new: each Owned field has its cell, and no snapshot is out.
OwnedNew ==
    [heap |-> [f \in Fields |-> [cell \in Cells |-> FieldDefault[f]]],
     owned |-> [f \in Fields |-> 1],
     snapshot |-> [s \in Snapshots |-> NoSnapshot],
     taken |-> [s \in Snapshots |-> FieldDefault]]

\* Arc::strong_count of a cell of field f.
StrongCount(a, f, cell) ==
    (IF a.owned[f] = cell THEN 1 ELSE 0)
    + Cardinality({s \in Snapshots : a.snapshot[s][f] = cell})

\* Owned::deref and Snapshot::deref: the value in the cell pointed to.
OwnedDeref(a, f) == a.heap[f][a.owned[f]]
SnapshotDeref(a, s, f) == a.heap[f][a.snapshot[s][f]]

\* State::snapshot into slot s: each Owned field clones its Arc. What the
\* fields hold at that moment is noted.
StateSnapshotOn(a, s) ==
    [a EXCEPT !.snapshot[s] = [f \in Fields |-> a.owned[f]],
              !.taken[s] = [f \in Fields |-> OwnedDeref(a, f)]]

\* A deref_mut that hands out the owner's cell whoever shares it.
MakeMutInPlace(a, f) == a

\* Arc::make_mut on the owner's Arc of field f: a cell that is shared is
\* cloned into a fresh one (a cell nobody holds), which the owner holds from
\* then on.
MakeMut(a, f) ==
    IF StrongCount(a, f, a.owned[f]) = 1 THEN a
    ELSE LET fresh == CHOOSE cell \in Cells : StrongCount(a, f, cell) = 0
         IN  [a EXCEPT !.heap[f][fresh] = OwnedDeref(a, f), !.owned[f] = fresh]

\* A mutation of field f through Owned::deref_mut that leaves it at value.
DerefMutOn(a, f, value) ==
    \* the cell make_mut returns is written
    LET unique == MakeMut(a, f)
    IN  [unique EXCEPT !.heap[f][unique.owned[f]] = value]

\* The snapshot of slot s is dropped; a cell nobody holds is freed (its
\* content is gone).
SnapshotDroppedOn(a, s) ==
    LET dropped == [a EXCEPT !.snapshot[s] = NoSnapshot, !.taken[s] = FieldDefault]
    IN  [dropped EXCEPT !.heap = [f \in Fields |-> [cell \in Cells |->
                                     IF StrongCount(dropped, f, cell) = 0
                                     THEN FieldDefault[f]
                                     ELSE dropped.heap[f][cell]]]]

\* ----------------------------------------------------------- catch_panics
\* Pieces of text a panic message is made of.
MaxPieces == 3

\* The two halves of the assertion text catch_panics looks for, and any
\* other text.
Pieces == {"assertion failed: ",
           "old_memo.revisions.changed_at <= revisions.changed_at",
           "other text"}

\* The text catch_panics looks for in a message.
SalsaAssertion == <<"assertion failed: ",
                    "old_memo.revisions.changed_at <= revisions.changed_at">>

Messages == UNION {[1..n -> Pieces] : n \in 0..MaxPieces}

Values == {"v1", "v2"}

\* What a closure run under catch_panics does: it returns a value, or panics
\* with a payload that is salsa's Cancelled, a &str or a String with a
\* message, or something else.
Computations ==
    [outcome : {"returns"}, value : Values, payload : {"none"}, message : {<<>>}]
    \cup [outcome : {"panics"}, value : {"none"}, payload : {"&str", "String"},
          message : Messages]
    \cup [outcome : {"panics"}, value : {"none"}, payload : {"Cancelled", "other"},
          message : {<<>>}]

\* LSPResult<T>.
Ok(value) == [ok |-> TRUE, value |-> value, code |-> "none"]
Err(code) == [ok |-> FALSE, value |-> "none", code |-> code]
NotRun == [ok |-> FALSE, value |-> "none", code |-> "not run"]

NoTask == [computation |-> [outcome |-> "none", value |-> "none", payload |-> "none",
                            message |-> <<>>],
           result |-> NotRun]

\* str::contains: the text occurs somewhere in the message.
Contains(message, text) ==
    \E from \in 1..(Len(message) - Len(text) + 1) :
        SubSeq(message, from, from + Len(text) - 1) = text

\* A test for cancellation that knows the Cancelled payload only.
IsCancelledUnwindOnly(err) == err.payload = "Cancelled"

\* The test catch_panics applies to the payload of a panic.
IsCancelled(err) ==
    \/ err.payload = "Cancelled"
    \/ err.payload = "&str" /\ Contains(err.message, SalsaAssertion)

\* Backend::catch_panics on a closure that behaves as computation.
CatchPanics(computation) ==
    IF computation.outcome = "returns" THEN Ok(computation.value)
    ELSE IF IsCancelled(computation) THEN Err("ServerCancelled")
    ELSE Err("InternalError")

\* ------------------------------------------------- the database swapper
\* State::db_replace_interval, in milliseconds.
DbReplaceInterval == 10

\* What the closure of swap_database may do under catch_panics: build the
\* database, or unwind with Cancelled, with salsa's assertion, or with
\* another panic.
Constructions ==
    {computation \in Computations :
        \/ computation.outcome = "returns" /\ computation.value = "v1"
        \/ computation.payload \in {"Cancelled", "other"}
        \/ computation.payload = "&str"
           /\ computation.message \in {SalsaAssertion, <<"other text">>}}

\* The closure of swap_database when it returns: a fresh database with the
\* intern table and the overrides ensure_exists_in_db gives it, on which no
\* query has run.
NewDb(m, table) ==
    [interned |-> table,
     file_overrides |-> EnsureExistsInDb(table, m.interned, m.file_overrides, m.open_files),
     warm |-> FALSE]

\* ensure_diagnostics_queries_up_to_date on the fresh database.
WarmUp(s) == [s EXCEPT !.new_db.warm = TRUE, !.log = Append(@, "warm up")]

\* The second ensure_exists_in_db and state.db = new_db. The log tells whether
\* the database assigned had its diagnostics computed.
AssignDb(s) ==
    [s EXCEPT !.state = SwapDatabaseOn(@, s.new_db.interned),
              !.log = Append(@, IF s.new_db.warm THEN "assign warm" ELSE "assign cold")]

\* A swap_database that serves the fresh database first and warms it up then.
SwapDatabaseServesCold(m, table, computation) ==
    LET built == CatchPanics(computation)
        s == WarmUp(AssignDb([state |-> m, new_db |-> NewDb(m, table), log |-> <<"new db">>]))
    IN  IF built.ok THEN [state |-> s.state, log |-> s.log, result |-> Ok("()")]
        ELSE [state |-> m, log |-> <<"new db failed">>, result |-> built]

\* Backend::swap_database: the closure runs under catch_panics and an error
\* is returned at once; else the fresh database is warmed up and assigned.
SwapDatabaseSteps(m, table, computation) ==
    LET built == CatchPanics(computation)
        s == AssignDb(WarmUp([state |-> m, new_db |-> NewDb(m, table), log |-> <<"new db">>]))
    IN  IF built.ok THEN [state |-> s.state, log |-> s.log, result |-> Ok("()")]
        ELSE [state |-> m, log |-> <<"new db failed">>, result |-> built]

\* The gate of maybe_swap_database: more than the interval has passed.
SwapGate(last, now) == ~(now - last <= DbReplaceInterval)

\* Backend::maybe_swap_database. now is the clock read by
\* last_replace.elapsed(), an error (unwrapped: a panic) if last_replace is
\* later than now; later is the clock read for the new last_replace.
MaybeSwapDatabaseOn(m, last, now, later, table, computation) ==
    IF now < last
    THEN [state |-> m, panic |-> TRUE, swapped |-> FALSE, last_replace |-> last,
          log |-> <<>>, result |-> NotRun, computation |-> NoTask.computation]
    ELSE IF ~SwapGate(last, now)
    THEN [state |-> m, panic |-> FALSE, swapped |-> FALSE, last_replace |-> last,
          log |-> <<>>, result |-> Ok("()"), computation |-> NoTask.computation]
    ELSE LET swap == SwapDatabaseSteps(m, table, computation)
         IN  [state |-> swap.state, panic |-> FALSE, swapped |-> TRUE,
              last_replace |-> later, log |-> swap.log, result |-> swap.result,
              computation |-> computation]

\* ------------------------------------------------------------- the client
\* send_request with a generator that issues its id without advancing.
SendRequestReusesId(m, c, method) ==
    [id |-> m.id_generator[c],
     ok |-> m.connected[c],
     state |-> [m EXCEPT !.requester[c] = IF m.connected[c]
                                          THEN @ \cup {[id |-> m.id_generator[c],
                                                        method |-> method]}
                                          ELSE @]]

\* ProcMacroClient::send_request on client c: the generator issues the id, then
\* the request is sent; the send fails when the transport is down.
SendRequest(m, c, method) ==
    [id |-> m.id_generator[c],
     ok |-> m.connected[c],
     state |-> [m EXCEPT !.id_generator[c] = @ + 1,
                         !.requester[c] = IF m.connected[c]
                                          THEN @ \cup {[id |-> m.id_generator[c],
                                                        method |-> method]}
                                          ELSE @]]

\* A thread writes a change to the mailbox.
Post(m, change) ==
    [m EXCEPT !.status_change = Update(@, change),
              !.last_written = change,
              !.unread = CountWrite(@)]

\* fetch_defined_macros bails on this condition right after the send.
NotFirstRequest(id) == id = 0

\* serde_json::from_value into DefinedMacrosResponse.
ParsesManifest(value) == value \in Manifests

\* What fetch_defined_macros makes of the response it received: Ok with the
\* manifest when the id is the one sent and the payload deserializes.
FetchResult(id, response) ==
    IF response.id # id THEN [ok |-> FALSE, macros |-> "none"]
    ELSE IF ~ParsesManifest(response.value) THEN [ok |-> FALSE, macros |-> "none"]
    ELSE [ok |-> TRUE, macros |-> response.value]

\* A bootstrap thread that reports an error of fetch_defined_macros as fatal.
BootChangeFatal(result, c) ==
    IF result.ok THEN ReadyChange(result.macros, c) ELSE FatalFailed

\* A bootstrap thread that hands out its client whatever fetch_defined_macros
\* returned.
BootChangeReadyAnyway(result, c) ==
    ReadyChange(IF result.ok THEN result.macros ELSE "mA", c)

\* The event the bootstrap thread posts for the result of fetch_defined_macros.
BootChange(result, c) == IF result.ok THEN ReadyChange(result.macros, c) ELSE Failed

\* The bootstrap thread of client c, up to the blocking receive of
\* fetch_defined_macros: the request is sent and the id checked. An error ends
\* fetch_defined_macros, and the thread posts Failed.
BootSendOn(m, c) ==
    LET sent == SendRequest(m, c, "DefinedMacros")
        m1 == [sent.state EXCEPT !.boot_id[c] = sent.id]
    IN  IF ~sent.ok THEN Post([m1 EXCEPT !.boot[c] = "fault"], Failed)
        ELSE IF NotFirstRequest(sent.id) THEN Post([m1 EXCEPT !.boot[c] = "bail"], Failed)
        ELSE [m1 EXCEPT !.boot[c] = "recv"]

\* The bootstrap thread of client c from the blocking receive on: it takes the
\* first response of the channel, or an error when the channel is empty and the
\* transport down, and posts Ready with the manifest and the client, or Failed.
BootRecvOn(m, c) ==
    LET received == m.responder[c] # <<>>
        result == IF received THEN FetchResult(m.boot_id[c], Head(m.responder[c]))
                  ELSE [ok |-> FALSE, macros |-> "none"]
        m1 == [m EXCEPT !.responder[c] = IF received THEN Tail(@) ELSE @,
                        !.boot_response[c] = IF received THEN Head(m.responder[c])
                                             ELSE RecvError,
                        !.boot[c] = IF result.ok THEN "ok" ELSE "fault"]
    IN  Post(m1, BootChange(result, c))

\* send_request_tracked of worker w, first half: send_request. On an error
\* Failed is posted and the call is over; otherwise the table entry is still to
\* be inserted.
RequestSendOn(m, w, kind, params) ==
    LET c == m.worker[w].client
        sent == SendRequest(m, c, kind)
    IN  IF sent.ok
        THEN [sent.state EXCEPT !.worker[w] = [pc |-> "insert", client |-> c, id |-> sent.id,
                                               kind |-> kind, params |-> params]]
        ELSE Post(sent.state, Failed)

\* send_request_tracked of worker w, second half: the table is locked and the
\* entry inserted. Locking a poisoned table panics the worker, and nothing is
\* inserted.
RequestInsertOn(m, w) ==
    LET c == m.worker[w].client
        entry == [kind |-> m.worker[w].kind, params |-> m.worker[w].params]
        m1 == [m EXCEPT !.worker[w] = [IdleWorker EXCEPT !.pc = "ready", !.client = c]]
    IN  IF m.poisoned[c] THEN m1
        ELSE [m1 EXCEPT !.requests_params[c] = MapInsert(@, m.worker[w].id, entry)]

\* The id a response carries when the server answers out of step.
OtherId(id) == id + 1

\* The responses the server may give to a request it holds. The payload is a
\* manifest or an expansion result, or does not deserialize; the response to
\* the bootstrap request may carry another id than the request's.
Responses(request) ==
    IF request.method = "DefinedMacros"
    THEN [id : {request.id}, value : Manifests \cup {Malformed}]
         \cup [id : {OtherId(request.id)}, value : Manifests]
    ELSE [id : {request.id}, value : Results \cup {Malformed}]

\* The server of client c answers a request it holds: the response is buffered
\* on the inbound channel.
Deliver(m, c, request, response) ==
    [m EXCEPT !.requester[c] = @ \ {request}, !.responder[c] = Append(@, response)]

\* ------------------------------------------------------- the whole state
\* The state as the handlers above read and write it; panic and result are the
\* outcome of the call in progress.
Main ==
    [first_id |-> first_id, disable_proc_macros |-> disable_proc_macros,
     status |-> status, status_change |-> status_change, retries_left |-> retries_left,
     nclients |-> nclients, boot |-> boot, boot_id |-> boot_id,
     boot_response |-> boot_response,
     id_generator |-> id_generator, connected |-> connected, requester |-> requester,
     responder |-> responder, requests_params |-> requests_params, poisoned |-> poisoned,
     worker |-> worker,
     attribute_macro_resolution |-> attribute_macro_resolution,
     derive_macro_resolution |-> derive_macro_resolution,
     inline_macro_resolution |-> inline_macro_resolution,
     macro_plugins |-> macro_plugins, inline_macro_plugins |-> inline_macro_plugins,
     failures |-> failures, swaps |-> swaps, old_clients |-> old_clients, open_files |-> open_files,
     interned |-> interned, file_overrides |-> file_overrides,
     last_written |-> last_written,
     unread |-> unread, panic |-> FALSE, result |-> FALSE, taken |-> <<>>, written |-> {}]

\* Somebody holds the Arc of client c: its running bootstrap thread, a Ready
\* change in the mailbox, the status of the database, or a worker's snapshot.
Held(m, c) ==
    \/ m.boot[c] \in {"send", "recv"}
    \/ m.status_change.client = c
    \/ m.status.client = c
    \/ \E w \in DOMAIN m.worker : m.worker[w].client = c

\* A client nobody holds is dropped: its connection is closed and its table and
\* generator are gone.
Release(m) ==
    LET gone == {c \in Clients : c <= m.nclients /\ ~Held(m, c)}
        Clear(f, empty) == [c \in Clients |-> IF c \in gone THEN empty ELSE f[c]]
    IN  [m EXCEPT !.connected = Clear(@, FALSE),
                  !.requester = Clear(@, {}),
                  !.responder = Clear(@, <<>>),
                  !.requests_params = Clear(@, EmptyMap),
                  !.poisoned = Clear(@, FALSE),
                  !.id_generator = Clear(@, m.first_id)]

\* The next state is m0, less the clients nobody holds; outcome is the outcome
\* of the call the step made on the main thread.
Assign(m0, outcome) ==
    \E m \in {Release(m0)} :
    /\ call' = outcome
    /\ clock' = clock
    /\ last_run' = last_run
    /\ runs' = runs
    /\ open_files' = m.open_files
    /\ interned' = m.interned
    /\ file_overrides' = m.file_overrides
    /\ first_id' = m.first_id
    /\ disable_proc_macros' = m.disable_proc_macros
    /\ status' = m.status
    /\ status_change' = m.status_change
    /\ retries_left' = m.retries_left
    /\ nclients' = m.nclients
    /\ boot' = m.boot
    /\ boot_id' = m.boot_id
    /\ boot_response' = m.boot_response
    /\ id_generator' = m.id_generator
    /\ connected' = m.connected
    /\ requester' = m.requester
    /\ responder' = m.responder
    /\ requests_params' = m.requests_params
    /\ poisoned' = m.poisoned
    /\ worker' = m.worker
    /\ attribute_macro_resolution' = m.attribute_macro_resolution
    /\ derive_macro_resolution' = m.derive_macro_resolution
    /\ inline_macro_resolution' = m.inline_macro_resolution
    /\ macro_plugins' = m.macro_plugins
    /\ inline_macro_plugins' = m.inline_macro_plugins
    /\ failures' = m.failures
    /\ swaps' = m.swaps
    /\ old_clients' = m.old_clients
    /\ last_written' = m.last_written
    /\ unread' = m.unread
    /\ UNCHANGED <<arcs, task, last_replace, swap_log>>

\* A step of another thread, or of the main thread outside the two hooks.
Commit(m0) == Assign(m0, NoCall)

\* ---------------------------------------------------------------- actions
\* The state after construction, files apart: no client yet, the retry budget
\* whole, the database new. prior is the number of requests the first client
\* will have issued before its bootstrap thread sends.
StartProcMacros(prior) ==
    /\ first_id \in FirstIds
    /\ disable_proc_macros \in BOOLEAN
    /\ status = Disabled
    /\ status_change = None
    /\ retries_left = RetryBudget
    /\ nclients = 0
    /\ boot = [c \in Clients |-> "none"]
    /\ boot_id = [c \in Clients |-> 0]
    /\ boot_response = [c \in Clients |-> NotReceived]
    /\ id_generator = [c \in Clients |-> IF c = 1 THEN first_id + prior ELSE first_id]
    /\ connected = [c \in Clients |-> TRUE]
    /\ requester = [c \in Clients |-> {}]
    /\ responder = [c \in Clients |-> <<>>]
    /\ requests_params = [c \in Clients |-> EmptyMap]
    /\ poisoned = [c \in Clients |-> FALSE]
    /\ worker = [w \in Workers |-> IdleWorker]
    /\ attribute_macro_resolution = EmptyMap
    /\ derive_macro_resolution = EmptyMap
    /\ inline_macro_resolution = EmptyMap
    /\ macro_plugins = <<StaticPlugin>>
    /\ inline_macro_plugins = {StaticPlugin}
    /\ failures = 0
    /\ swaps = 0
    /\ call = NoCall
    /\ clock = 0
    /\ last_run = DebouncerNew(Interval, clock)
    /\ runs = 0
    /\ last_written = None
    /\ unread = 0

\* State::new: no file is open, and the database has seen none.
Start(prior) ==
    /\ StartProcMacros(prior)
    /\ open_files = {}
    /\ interned = <<>>
    /\ file_overrides = EmptyMap
    /\ arcs = OwnedNew
    /\ last_replace = clock
    /\ swap_log = <<>>
    /\ old_clients = 0
    /\ task = NoTask

Init == Start(0)

\* The post-sync hook of the scheduler: initialize_if_enabled_now.
InitializeIfEnabledNow(spawn_ok) ==
    \E m \in {InitializeIfEnabledNowOn(Main, spawn_ok)} :
        /\ m.nclients <= MaxClients
        /\ Commit(m)

\* The idle hook of the scheduler: maybe_update_state. A call that panics ends
\* there, with the state as the call left it; what the control thread does next
\* is the scheduler's matter, and every later step stays possible.
MaybeUpdateState(spawn_ok, checks) ==
    \E m \in {MaybeUpdateStateOn(Main, spawn_ok, checks)} :
        /\ m.nclients <= MaxClients
        /\ m.failures <= MaxFailures
        /\ Assign(m, Seen("maybe_update_state", m))

\* Config reload: disable_proc_macros takes the value the editor sends.
ReloadConfig(disable) ==
    /\ disable # disable_proc_macros
    /\ Commit([Main EXCEPT !.disable_proc_macros = disable])

SwapDatabase ==
    /\ swaps < MaxSwaps
    /\ \E table \in NewTables(open_files) : Commit(SwapDatabaseOn(Main, table))

BootSend(c) ==
    /\ boot[c] = "send"
    /\ Commit(BootSendOn(Main, c))

\* The blocking receive of the bootstrap thread returns: with the server's
\* answer to the bootstrap request, or with an error once the transport is
\* down. Nobody else reads the channel of a client that is not Ready, so the
\* server's answer and its receipt are one step.
BootRecv(c) ==
    /\ boot[c] = "recv"
    /\ \/ /\ connected[c]
          /\ \E request \in requester[c] : \E response \in Responses(request) :
                Commit(BootRecvOn(Deliver(Main, c, request, response), c))
       \/ /\ ~connected[c]
          /\ Commit(BootRecvOn(Main, c))

\* A worker task starts on a snapshot of the state whose status is Ready: its
\* queries reach the client of that snapshot.
TakeSnapshot(w) ==
    /\ worker[w].pc = "idle"
    /\ status.kind = "Ready"
    /\ Commit([Main EXCEPT !.worker[w] = [IdleWorker EXCEPT !.pc = "ready",
                                                            !.client = status.client]])

\* The worker task ends and its snapshot is dropped.
DropSnapshot(w) ==
    /\ worker[w].pc = "ready"
    /\ Commit([Main EXCEPT !.worker[w] = IdleWorker])

RequestSend(w, kind, params) ==
    /\ worker[w].pc = "ready"
    /\ LET c == worker[w].client
       IN  id_generator[c] <= first_id + MaxRequests
                              + (IF connected[c] THEN 0 ELSE MaxFailedSends)
    /\ Commit(RequestSendOn(Main, w, kind, params))

RequestInsert(w) ==
    /\ worker[w].pc = "insert"
    /\ Commit(RequestInsertOn(Main, w))

\* The server of client c answers an expansion request it holds.
ServerRespond(c, request, response) ==
    /\ connected[c]
    /\ request \in requester[c]
    /\ request.method # "DefinedMacros"
    /\ response \in Responses(request)
    /\ Commit(Deliver(Main, c, request, response))

\* The server process of client c dies: sends fail from now on, and a receive
\* fails once the buffered responses are taken.
ServerDies(c) ==
    /\ c <= nclients
    /\ connected[c]
    /\ Commit([Main EXCEPT !.connected[c] = FALSE, !.requester[c] = {}])

Next ==
    \/ \E spawn_ok \in BOOLEAN : InitializeIfEnabledNow(spawn_ok)
    \/ \E spawn_ok \in BOOLEAN, checks \in BOOLEAN : MaybeUpdateState(spawn_ok, checks)
    \/ \E disable \in BOOLEAN : ReloadConfig(disable)
    \/ \E c \in Clients : BootSend(c)
    \/ \E c \in Clients : BootRecv(c)
    \/ \E w \in DOMAIN worker : TakeSnapshot(w)
    \/ \E w \in DOMAIN worker : DropSnapshot(w)
    \/ \E w \in DOMAIN worker, kind \in Kinds, params \in Params : RequestSend(w, kind, params)
    \/ \E w \in DOMAIN worker : RequestInsert(w)
    \/ \E c \in Clients : \E request \in requester[c] : \E response \in Responses(request) :
            ServerRespond(c, request, response)
    \/ \E c \in Clients : ServerDies(c)

\* The controller, its threads and the servers, on one database.
Spec == Init /\ [][Next]_vars

\* The same with the database swapped under them.
NextSwap ==
    \/ Next
    \/ SwapDatabase

SpecSwap == Init /\ [][NextSwap]_vars

\* The controller, the bootstrap threads and the database swapper, with no
\* worker task running.
NextRestart ==
    \/ \E spawn_ok \in BOOLEAN : InitializeIfEnabledNow(spawn_ok)
    \/ \E spawn_ok \in BOOLEAN, checks \in BOOLEAN : MaybeUpdateState(spawn_ok, checks)
    \/ \E disable \in BOOLEAN : ReloadConfig(disable)
    \/ \E c \in Clients : BootSend(c)
    \/ \E c \in Clients : BootRecv(c)
    \/ \E c \in Clients : ServerDies(c)
    \/ SwapDatabase

SpecRestart == Init /\ [][NextRestart]_vars

\* The controller and its bootstrap threads on one database, with no worker
\* task running.
NextLive ==
    \/ \E spawn_ok \in BOOLEAN : InitializeIfEnabledNow(spawn_ok)
    \/ \E spawn_ok \in BOOLEAN, checks \in BOOLEAN : MaybeUpdateState(spawn_ok, checks)
    \/ \E disable \in BOOLEAN : ReloadConfig(disable)
    \/ \E c \in Clients : BootSend(c)
    \/ \E c \in Clients : BootRecv(c)
    \/ \E c \in Clients : ServerDies(c)

\* The scheduler calls maybe_update_state again and again, and each bootstrap
\* thread runs to the end: its send returns and its blocking receive returns
\* (with the answer, or with an error once the server is gone).
Fairness ==
    /\ WF_vars(\E spawn_ok \in BOOLEAN, checks \in BOOLEAN : MaybeUpdateState(spawn_ok, checks))
    /\ \A c \in Clients : WF_vars(BootSend(c)) /\ WF_vars(BootRecv(c))

SpecLive == Init /\ [][NextLive]_vars /\ Fairness

\* fetch_defined_macros as the first request of its client or after up to
\* MaxPrior others, whose exchanges are over.
InitFetch == \E prior \in 0..MaxPrior : Start(prior)

SpecFetch == InitFetch /\ [][Next]_vars

\* ------------------------------------------------ the drain job on its own
\* The ids of the requests in flight when the drain job runs, the payloads that
\* deserialize, and the values a resolution map may hold for the one key.
DrainIds == {7, 9}
DrainResults == {"r1", "r2"}
DrainTables ==
    UNION {[ids -> [kind : Kinds, params : Params]] : ids \in SUBSET DrainIds}
DrainResponses == [id : DrainIds, value : DrainResults \cup {Malformed}]
DrainChannels ==
    {ch \in UNION {[1..n -> DrainResponses] : n \in 0..MaxBatch} :
        \A i, j \in DOMAIN ch : ch[i].id = ch[j].id => i = j}
DrainMaps == {EmptyMap} \cup {MapInsert(EmptyMap, p, "r1") : p \in Params}

\* The states in which the idle hook finds the first client: Ready; or, a send
\* of a worker having failed, replaced by a second client that is still to
\* report (Initializing), or not replaced because the spawn failed
\* (InitializingFailed). The first client is held by the workers' snapshots, its
\* table, its channel and the three resolution maps are whatever requests and
\* responses so far left.
InitDrain ==
    /\ first_id = 1
    /\ disable_proc_macros = FALSE
    /\ status \in {Ready(1), Initializing, InitializingFailed}
    /\ status_change = None
    /\ retries_left = IF status = Ready(1) THEN RetryBudget ELSE RetryBudget - 1
    /\ nclients = IF status = Initializing THEN 2 ELSE 1
    /\ boot = [c \in Clients |-> IF c = 1 THEN "ok"
                                 ELSE IF c <= nclients THEN "send" ELSE "none"]
    /\ boot_id = [c \in Clients |-> IF c = 1 THEN first_id ELSE 0]
    /\ boot_response = [c \in Clients |->
                            IF c = 1 THEN [id |-> first_id, value |-> "mA"]
                            ELSE NotReceived]
    /\ id_generator = [c \in Clients |-> IF c = 1 THEN 10 ELSE first_id]
    /\ connected = [c \in Clients |-> c = 1 => status = Ready(1)]
    /\ \E table \in DrainTables :
           requests_params = [c \in Clients |-> IF c = 1 THEN table ELSE EmptyMap]
    /\ \E channel \in DrainChannels :
           responder = [c \in Clients |-> IF c = 1 THEN channel ELSE <<>>]
    /\ requester = [c \in Clients |->
                        IF connected[c]
                        THEN {[id |-> id, method |-> requests_params[c][id].kind] :
                                 id \in {i \in DOMAIN requests_params[c] :
                                            \A k \in DOMAIN responder[c] :
                                                responder[c][k].id # i}}
                        ELSE {}]
    /\ poisoned = [c \in Clients |-> FALSE]
    /\ worker = [w \in Workers |-> [IdleWorker EXCEPT !.pc = "ready", !.client = 1]]
    /\ attribute_macro_resolution \in DrainMaps
    /\ derive_macro_resolution \in DrainMaps
    /\ inline_macro_resolution \in DrainMaps
    /\ macro_plugins = <<StaticPlugin, "mA">>
    /\ inline_macro_plugins = {StaticPlugin, "mA"}
    /\ failures = IF status = Ready(1) THEN 0 ELSE 1
    /\ swaps = 0
    /\ call = NoCall
    /\ clock = 0
    /\ last_run = DebouncerNew(Interval, clock)
    /\ runs = 0
    /\ open_files = {}
    /\ interned = <<>>
    /\ file_overrides = EmptyMap
    /\ arcs = OwnedNew
    /\ last_replace = clock
    /\ swap_log = <<>>
    /\ old_clients = 0
    /\ task = NoTask
    /\ last_written = None
    /\ unread = 0

\* The idle hook with an empty mailbox: apply_proc_macro_server_responses.
ApplyProcMacroServerResponses ==
    \E m \in {ApplyResponses(Main)} :
        Assign(m, Outcome("apply_proc_macro_server_responses", m))

SpecDrain == InitDrain /\ [][ApplyProcMacroServerResponses]_vars

\* ------------------------------------------------- the senders on their own
\* Several worker tasks hold a snapshot with the Ready client 1, whose
\* bootstrap request took the first id; the table is empty.
InitSend ==
    /\ first_id \in FirstIds
    /\ disable_proc_macros = FALSE
    /\ status = Ready(1)
    /\ status_change = None
    /\ retries_left = RetryBudget
    /\ nclients = 1
    /\ boot = [c \in Clients |-> IF c = 1 THEN "ok" ELSE "none"]
    /\ boot_id = [c \in Clients |-> IF c = 1 THEN first_id ELSE 0]
    /\ boot_response = [c \in Clients |->
                            IF c = 1 THEN [id |-> first_id, value |-> "mA"]
                            ELSE NotReceived]
    /\ id_generator = [c \in Clients |-> IF c = 1 THEN first_id + 1 ELSE first_id]
    /\ connected = [c \in Clients |-> c = 1]
    /\ requests_params = [c \in Clients |-> EmptyMap]
    /\ responder = [c \in Clients |-> <<>>]
    /\ requester = [c \in Clients |-> {}]
    /\ poisoned = [c \in Clients |-> FALSE]
    /\ worker = [w \in 1..MaxSenders |-> [IdleWorker EXCEPT !.pc = "ready", !.client = 1]]
    /\ attribute_macro_resolution = EmptyMap
    /\ derive_macro_resolution = EmptyMap
    /\ inline_macro_resolution = EmptyMap
    /\ macro_plugins = <<StaticPlugin, "mA">>
    /\ inline_macro_plugins = {StaticPlugin, "mA"}
    /\ failures = 0
    /\ swaps = 0
    /\ call = NoCall
    /\ clock = 0
    /\ last_run = DebouncerNew(Interval, clock)
    /\ runs = 0
    /\ open_files = {}
    /\ interned = <<>>
    /\ file_overrides = EmptyMap
    /\ arcs = OwnedNew
    /\ last_replace = clock
    /\ swap_log = <<>>
    /\ old_clients = 0
    /\ task = NoTask
    /\ last_written = None
    /\ unread = 0

\* send_request_tracked of worker w, first half, within the bound of the
\* senders.
SendRequestTracked(w, kind, params) ==
    /\ worker[w].pc = "ready"
    /\ id_generator[worker[w].client] <= first_id + MaxSends
    /\ Commit(RequestSendOn(Main, w, kind, params))

NextSend ==
    \/ \E w \in DOMAIN worker, kind \in Kinds, params \in Params :
           SendRequestTracked(w, kind, params)
    \/ \E w \in DOMAIN worker : RequestInsert(w)
    \/ \E c \in Clients : \E request \in requester[c] : \E response \in Responses(request) :
           ServerRespond(c, request, response)
    \/ \E c \in Clients : ServerDies(c)
    \/ ApplyProcMacroServerResponses

SpecSend == InitSend /\ [][NextSend]_vars

\* ------------------------------------------ the owned values on their own
OwnedStep(a) ==
    /\ arcs' = a
    /\ UNCHANGED <<first_id, disable_proc_macros, status, status_change,
                   retries_left, nclients, boot, boot_id, boot_response, id_generator,
                   connected, requester, responder, requests_params, poisoned, worker,
                   attribute_macro_resolution, derive_macro_resolution,
                   inline_macro_resolution, macro_plugins, inline_macro_plugins,
                   failures, swaps, call, clock, last_run, runs, open_files, interned,
                   file_overrides, last_written, unread, task,
                   last_replace, swap_log, old_clients>>

\* State::snapshot, for a task about to be dispatched.
StateSnapshot(s) ==
    /\ arcs.snapshot[s] = NoSnapshot
    /\ OwnedStep(StateSnapshotOn(arcs, s))

\* The task is over and its snapshot dropped.
SnapshotDropped(s) ==
    /\ arcs.snapshot[s] # NoSnapshot
    /\ OwnedStep(SnapshotDroppedOn(arcs, s))

\* The main thread mutates an Owned field of the state.
DerefMut(f, value) == OwnedStep(DerefMutOn(arcs, f, value))

NextOwned ==
    \/ \E s \in Snapshots : StateSnapshot(s)
    \/ \E s \in Snapshots : SnapshotDropped(s)
    \/ \E f \in Fields : \E value \in FieldValues[f] : DerefMut(f, value)

SpecOwned == Init /\ [][NextOwned]_vars

\* -------------------------------------------- catch_panics on its own
InitPanics ==
    /\ StartProcMacros(0)
    /\ open_files = {}
    /\ interned = <<>>
    /\ file_overrides = EmptyMap
    /\ arcs = OwnedNew
    /\ last_replace = clock
    /\ swap_log = <<>>
    /\ old_clients = 0
    /\ task \in [computation : Computations, result : {NotRun}]

\* catch_panics runs the closure and returns.
CatchPanicsReturns ==
    /\ task.result = NotRun
    /\ task' = [task EXCEPT !.result = CatchPanics(task.computation)]
    /\ UNCHANGED <<first_id, disable_proc_macros, status, status_change,
                   retries_left, nclients, boot, boot_id, boot_response, id_generator,
                   connected, requester, responder, requests_params, poisoned, worker,
                   attribute_macro_resolution, derive_macro_resolution,
                   inline_macro_resolution, macro_plugins, inline_macro_plugins,
                   failures, swaps, call, clock, last_run, runs, open_files, interned,
                   file_overrides, last_written, unread, arcs,
                   last_replace, swap_log, old_clients>>

SpecPanics == InitPanics /\ [][CatchPanicsReturns]_vars

\* ------------------------------------------------ the debouncer on its own
\* Time passes.
Tick(d) ==
    /\ clock + d <= MaxTime
    /\ clock' = clock + d
    /\ UNCHANGED <<first_id, disable_proc_macros, status, status_change,
                   retries_left, nclients, boot, boot_id, boot_response, id_generator,
                   connected, requester, responder, requests_params, poisoned, worker,
                   attribute_macro_resolution, derive_macro_resolution,
                   inline_macro_resolution, macro_plugins, inline_macro_plugins,
                   failures, swaps, call, last_run, runs, open_files, interned,
                   file_overrides, last_written, unread, arcs, task,
                   last_replace, swap_log, old_clients>>

\* The system clock is set back (SystemTime is not monotonic).
ClockSetBack(d) ==
    /\ clock - d >= -MaxTime
    /\ clock' = clock - d
    /\ UNCHANGED <<first_id, disable_proc_macros, status, status_change,
                   retries_left, nclients, boot, boot_id, boot_response, id_generator,
                   connected, requester, responder, requests_params, poisoned, worker,
                   attribute_macro_resolution, derive_macro_resolution,
                   inline_macro_resolution, macro_plugins, inline_macro_plugins,
                   failures, swaps, call, last_run, runs, open_files, interned,
                   file_overrides, last_written, unread, arcs, task,
                   last_replace, swap_log, old_clients>>

\* A call of proc_macro_debouncer.run_debounced; elapsed is the time that
\* passes between its two readings of the clock.
RunDebounced(elapsed) ==
    /\ runs < MaxRuns
    /\ clock + elapsed <= MaxTime
    /\ \E r \in {RunDebouncedOn(Interval, last_run, clock, clock + elapsed)} :
          /\ last_run' = r.last_run
          /\ clock' = IF r.ran THEN clock + elapsed ELSE clock
          /\ call' = [NoCall EXCEPT !.op = "run_debounced", !.result = r.ran,
                                    !.panic = r.panic]
    /\ runs' = runs + 1
    /\ UNCHANGED <<first_id, disable_proc_macros, status, status_change,
                   retries_left, nclients, boot, boot_id, boot_response, id_generator,
                   connected, requester, responder, requests_params, poisoned, worker,
                   attribute_macro_resolution, derive_macro_resolution,
                   inline_macro_resolution, macro_plugins, inline_macro_plugins,
                   failures, swaps, open_files, interned, file_overrides,
                   last_written, unread, arcs, task,
                   last_replace, swap_log, old_clients>>

NextDebounce ==
    \/ \E d \in 1..Interval : Tick(d)
    \/ \E d \in 1..Interval : ClockSetBack(d)
    \/ \E elapsed \in 0..1 : RunDebounced(elapsed)

SpecDebounce == Init /\ [][NextDebounce]_vars

\* --------------------------------------------- the database swap on its own
\* The intern tables of a database and the overrides it may hold.
Tables ==
    {table \in UNION {[1..n -> Files] : n \in 0..Cardinality(Files)} :
        \A i, j \in DOMAIN table : table[i] = table[j] => i = j}
Overrides(table) == UNION {[ids -> Contents] : ids \in SUBSET DOMAIN table}

\* The states in which a swap finds the files: any URIs open, the database
\* having seen any files, with overrides for any of them.
InitFiles ==
    /\ StartProcMacros(0)
    /\ open_files \in SUBSET Uris
    /\ interned \in Tables
    /\ file_overrides \in Overrides(interned)
    /\ arcs = OwnedNew
    /\ last_replace = clock
    /\ swap_log = <<>>
    /\ old_clients = 0
    /\ task = NoTask

SpecFiles == InitFiles /\ [][SwapDatabase]_vars

\* ------------------------------------------ the database swapper on its own
\* Two files are open, the database has interned both, and any of them has an
\* override.
InitSwapper ==
    /\ StartProcMacros(0)
    /\ first_id = 1
    /\ ~disable_proc_macros
    /\ open_files = {"u1", "u2"}
    /\ interned = <<"f1", "f2">>
    /\ file_overrides \in Overrides(interned)
    /\ arcs = OwnedNew
    /\ last_replace = clock
    /\ swap_log = <<>>
    /\ old_clients = 0
    /\ task = NoTask

\* A call of maybe_swap_database after the diagnostics refresh; elapsed is the
\* time the swap takes.
MaybeSwapDatabase(elapsed, table, computation) ==
    /\ clock + elapsed <= MaxTime
    /\ \E r \in {MaybeSwapDatabaseOn(Main, last_replace, clock, clock + elapsed,
                                     table, computation)} :
          /\ r.state.swaps <= MaxSwaps
          /\ interned' = r.state.interned
          /\ file_overrides' = r.state.file_overrides
          /\ status' = r.state.status
          /\ attribute_macro_resolution' = r.state.attribute_macro_resolution
          /\ derive_macro_resolution' = r.state.derive_macro_resolution
          /\ inline_macro_resolution' = r.state.inline_macro_resolution
          /\ macro_plugins' = r.state.macro_plugins
          /\ inline_macro_plugins' = r.state.inline_macro_plugins
          /\ swaps' = r.state.swaps
          /\ old_clients' = r.state.old_clients
          /\ last_replace' = r.last_replace
          /\ swap_log' = r.log
          /\ task' = [computation |-> r.computation,
                      result |-> IF r.swapped THEN CatchPanics(r.computation) ELSE NotRun]
          /\ clock' = IF r.swapped THEN clock + elapsed ELSE clock
          /\ call' = [NoCall EXCEPT !.op = "maybe_swap_database", !.result = r.result.ok,
                                    !.panic = r.panic]
    /\ UNCHANGED <<first_id, disable_proc_macros, status_change, retries_left, nclients,
                   boot, boot_id, boot_response, id_generator, connected, requester,
                   responder, requests_params, poisoned, worker, failures, last_run, runs,
                   open_files, last_written, unread, arcs>>

NextSwapper ==
    \/ \E d \in {1, DbReplaceInterval} : Tick(d)
    \/ \E d \in {1, DbReplaceInterval} : ClockSetBack(d)
    \/ \E elapsed \in 0..1, table \in NewTables(open_files), computation \in Constructions :
           MaybeSwapDatabase(elapsed, table, computation)

SpecSwapper == InitSwapper /\ [][NextSwapper]_vars

\* ------------------------------------------------ steps of the controller
\* A step in which maybe_update_state takes a Failed, a FatalFailed or a Ready
\* event from the mailbox.
ConsumesFailed == status_change = Failed /\ failures' = failures + 1
ConsumesFatalFailed == status_change = FatalFailed /\ status_change' = None
ConsumesReady == status_change.kind = "Ready" /\ status_change' = None

\* Bootstrap threads that have not posted their event.
InFlight == {c \in Clients : boot[c] \in {"send", "recv"}}

\* ------------------------------------------------------------ properties
\* Retrying within a budget of n failures: the controller answers each of the
\* first n Failed events it consumes (proc macros enabled, the server process
\* spawned) with exactly one new attempt, and a Ready event it consumes with
\* the status Ready and no new attempt.
RetryStep(n) ==
    /\ (ConsumesFailed /\ failures' <= n /\ ~disable_proc_macros
                       /\ status_change' # FatalFailed)
            => /\ nclients' = nclients + 1
               /\ status' = Initializing
               /\ boot'[nclients'] = "send"
    /\ ConsumesReady => status' = Ready(status_change.client) /\ nclients' = nclients

\* C1, as amended: for every N below the retry budget (N <= 2), N Failed events
\* followed by one success leave the status Ready after exactly N+1 attempts:
\* each of the N failures starts one more attempt, the Ready event none.
C1_RetryBelowBudget == [][RetryStep(RetryBudget - 1)]_vars

\* C1, as stated: the same for every N up to the retry budget (N <= 3).
C1_RetryUpToBudget == [][RetryStep(RetryBudget)]_vars

\* Two failed attempts, then a third that succeeded: Ready after three attempts.
C1_ReadyAfterTwoFailures ==
    /\ status.kind = "Ready"
    /\ failures = RetryBudget - 1
    /\ nclients = RetryBudget
    /\ boot[status.client] = "ok"
    /\ \A c \in (1..nclients) \ {status.client} : boot[c] = "fault"

\* C2: from the consumption of the Failed event that exhausts the budget (the
\* third) on, each Failed event consumed leaves the status InitializingFailed
\* and starts no attempt: no client is made and no spawn is tried.
C2_NoAttemptAfterBudget ==
    [][ConsumesFailed /\ failures' >= RetryBudget
            => /\ status' = InitializingFailed
               /\ nclients' = nclients
               /\ status_change' = None]_vars

\* C3: a step of maybe_update_state that consumes FatalFailed leaves the status
\* InitializingFailed, starts no attempt and does not change retries_left,
\* whatever the status and retries_left were.
C3_FatalFailedIsFinal ==
    [][ConsumesFatalFailed
            => /\ status' = InitializingFailed
               /\ nclients' = nclients
               /\ boot' = boot
               /\ retries_left' = retries_left]_vars

\* FatalFailed was consumed after one retry had been spent: the status is
\* InitializingFailed with two retries left.
C3_FatalAfterOneRetry ==
    /\ status = InitializingFailed
    /\ retries_left = RetryBudget - 1
    /\ status_change = None

\* C4: once the status is InitializingFailed no step changes it or starts an
\* attempt.
C4_InitializingFailedIsTerminal ==
    [][status = InitializingFailed
            => status' = InitializingFailed /\ nclients' = nclients]_vars

\* C5: the mailbox holds the event of the last write since the last take and
\* nothing after a take; a step that consumes an event has the effect of that
\* one event only.
C5_MailboxIsOneSlot ==
    [][/\ status_change' = last_written'
       /\ (unread' = 0) = (status_change' = None)
       /\ failures' \in {failures, failures + 1}
       /\ failures' = failures + 1 => status_change = Failed /\ macro_plugins' = macro_plugins
       /\ ConsumesReady => /\ failures' = failures
                           /\ macro_plugins' = macro_plugins \o <<status_change.macros>>
       /\ ConsumesFatalFailed => failures' = failures /\ macro_plugins' = macro_plugins]_vars

\* A Ready event was written over an event nobody had read.
C5_ReadyOverwroteUnread == unread = 2 /\ status_change.kind = "Ready"

\* C6: no two bootstrap threads are in flight.
C6_OneBootstrapInFlight == Cardinality(InFlight) <= 1

\* C7: the drain job never meets a response without a table entry (it is the
\* one place where a table's mutex gets poisoned).
C7_DrainFindsEntry == \A c \in Clients : ~poisoned[c]

\* C8: fetch_defined_macros gets to its receive only with the first id of the
\* client's generator.
C8_RejectsLaterId == \A c \in Clients : boot[c] = "recv" => boot_id[c] = first_id

\* C9: on a fresh client whose transport is up, fetch_defined_macros gets to its
\* receive without posting anything, and on a response with the id sent and a
\* manifest that deserializes the thread posts Ready with the manifest and the
\* client.
C9_FirstRequestFetches ==
    [][\A c \in Clients :
        /\ (boot[c] = "send" /\ boot'[c] # "send"
                /\ id_generator[c] = first_id /\ connected[c])
              => boot'[c] = "recv" /\ status_change' = status_change
        /\ (boot[c] = "recv" /\ boot'[c] # "recv" /\ boot_id[c] = first_id
                /\ boot_response'[c].id = boot_id[c]
                /\ boot_response'[c].value \in Manifests)
              => /\ boot'[c] = "ok"
                 /\ status_change' = ReadyChange(boot_response'[c].value, c)]_vars

\* C10: a bootstrap thread whose send failed, whose receive failed, or whose
\* response carries another id or a payload that does not deserialize, posts
\* one event, and that event is Failed.
C10_BootstrapFailurePostsFailed ==
    [][\A c \in Clients :
        (\/ boot[c] = "send" /\ boot'[c] # "send" /\ ~connected[c]
         \/ /\ boot[c] = "recv" /\ boot'[c] # "recv"
            /\ \/ boot_response'[c] = RecvError
               \/ boot_response'[c].id # boot_id[c]
               \/ boot_response'[c].value \notin Manifests)
          => /\ boot'[c] = "fault"
             /\ status_change' = Failed
             /\ last_written' = Failed
             /\ unread' = CountWrite(unread)]_vars

\* Three attempts have failed, one at the send, one on a response with another
\* id, one on a payload that does not deserialize, and Failed is in the mailbox.
C10_ThreeKindsOfFailure ==
    /\ status_change = Failed
    /\ \E a, b, c \in Clients :
          /\ boot[a] = "fault" /\ boot_response[a] = NotReceived
          /\ boot[b] = "fault" /\ boot_response[b].id # boot_id[b]
                               /\ boot_response[b].value \in Manifests
          /\ boot[c] = "fault" /\ boot_response[c].id = boot_id[c]
                               /\ boot_response[c].value = Malformed

\* A step of send_request_tracked of worker w, first half: the generator of its
\* client issued an id.
TrackedSend(w) ==
    /\ worker[w].pc = "ready"
    /\ id_generator'[worker[w].client] = id_generator[worker[w].client] + 1

\* A step of send_request_tracked of worker w, second half: the worker has
\* left the insert.
TrackedInsert(w) == worker[w].pc = "insert" /\ worker'[w].pc # "insert"

\* The entry send_request_tracked of worker w is to insert.
TrackedEntry(w) == [kind |-> worker[w].kind, params |-> worker[w].params]

\* C11: a tracked send that fails is not retried, posts Failed and leaves the
\* table as it was; one that succeeds adds exactly the entry of its id (the
\* kind with its params) to the table and posts nothing.
C11_TrackedSendOutcome ==
    [][\A w \in DOMAIN worker :
        LET c == worker[w].client
        IN  /\ TrackedSend(w) /\ ~connected[c] =>
                /\ status_change' = Failed
                /\ requests_params' = requests_params
                /\ requester' = requester
                /\ worker'[w].pc = "ready"
            /\ TrackedSend(w) /\ connected[c] =>
                /\ status_change' = status_change
                /\ requests_params' = requests_params
                /\ worker'[w].pc = "insert"
            /\ TrackedInsert(w) =>
                /\ status_change' = status_change
                /\ worker[w].id \notin DOMAIN requests_params[c]
                /\ requests_params' =
                       [requests_params EXCEPT
                            ![c] = MapInsert(@, worker[w].id, TrackedEntry(w))]]_vars


\* The three resolution maps of the database.
Resolutions ==
    <<attribute_macro_resolution, derive_macro_resolution, inline_macro_resolution>>

\* The state has just been left by a call of the drain job.
Drained == call.op = "apply_proc_macro_server_responses"

SevenAndNine(c) ==
    /\ status = Ready(c)
    /\ ~poisoned[c]
    /\ DOMAIN requests_params[c] = {7, 9}
    /\ requests_params[c][7].kind = "Attribute"
    /\ requests_params[c][9].kind = "Derive"
    /\ Len(responder[c]) = 2
    /\ responder[c][1].id = 9 /\ Parses(responder[c][1].value)
    /\ responder[c][2].id = 7 /\ Parses(responder[c][2].value)

\* C13: responses are matched to requests by id, not by order of arrival: with
\* 7 (Attribute) and 9 (Derive) in flight and the responses arriving 9 first,
\* the drain puts 7's result under 7's params in the attribute map and 9's
\* under 9's params in the derive map, empties the table, writes the attribute
\* and the derive map and does not write the inline map.
C13_MatchedById ==
    [][\A c \in Clients :
        SevenAndNine(c) =>
          /\ attribute_macro_resolution' =
                 MapInsert(attribute_macro_resolution,
                           requests_params[c][7].params, responder[c][2].value)
          /\ derive_macro_resolution' =
                 MapInsert(derive_macro_resolution,
                           requests_params[c][9].params, responder[c][1].value)
          /\ inline_macro_resolution' = inline_macro_resolution
          /\ requests_params'[c] = EmptyMap
          /\ call'.written = {"Attribute", "Derive"}]_vars

\* A drain has written the attribute and the derive map, each with another
\* result, and left the table empty.
C13_TwoMapsWritten ==
    /\ Drained
    /\ call.taken = <<[id |-> 9, value |-> "r2"], [id |-> 7, value |-> "r1"]>>
    /\ call.written = {"Attribute", "Derive"}
    /\ requests_params[1] = EmptyMap
    /\ \E p \in DOMAIN attribute_macro_resolution \cap DOMAIN derive_macro_resolution :
          /\ attribute_macro_resolution[p] = "r1"
          /\ derive_macro_resolution[p] = "r2"


\* C14: a drain that finds the status Ready and the channel empty changes
\* nothing: the table and the three maps are as they were, no map is written
\* to the database, and it returns false.
C14_EmptyDrainIsIdentity ==
    [][\A c \in Clients :
        status = Ready(c) /\ ~poisoned[c] /\ responder[c] = <<>> =>
          /\ call'.result = FALSE /\ ~call'.panic /\ call'.written = {}
          /\ requests_params' = requests_params
          /\ Resolutions' = Resolutions]_vars

\* The job has run with the status Ready and nothing buffered, while requests
\* were in flight and the maps held results.
C14_DrainedEmptyChannel ==
    /\ Drained /\ ~call.panic /\ ~call.result
    /\ call.taken = <<>>
    /\ status = Ready(1)
    /\ responder[1] = <<>>
    /\ DOMAIN requests_params[1] = DrainIds
    /\ attribute_macro_resolution # EmptyMap


\* C15: the drain returns true exactly when it changed at least one resolution
\* map; a drain all of whose responses are malformed returns false.
C15_TrueIffMapChanged ==
    [][\A c \in Clients :
        /\ status = Ready(c) /\ ~poisoned[c]
        /\ call'.op = "apply_proc_macro_server_responses" /\ ~call'.panic
        => (call'.result <=> call'.written # {})]_vars


\* The positions of the batch ch that answer a request of the table t of the
\* given kind and params with a payload that parses.
Answers(ch, t, kind, params) ==
    {i \in DOMAIN ch : /\ ch[i].id \in DOMAIN t
                       /\ t[ch[i].id].kind = kind
                       /\ t[ch[i].id].params = params
                       /\ Parses(ch[i].value)}

\* The resolution map of a kind after the batch ch: each key answered in the
\* batch holds the result of its last answer, every other key what it held.
Resolved(old, ch, t, kind) ==
    [p \in DOMAIN old \cup {q \in Params : Answers(ch, t, kind, q) # {}} |->
        IF Answers(ch, t, kind, p) # {}
        THEN ch[CHOOSE i \in Answers(ch, t, kind, p) :
                   \A j \in Answers(ch, t, kind, p) : j <= i].value
        ELSE old[p]]

\* The batch buffered on client c has an answer that does not parse, and every
\* answer is to a request of the table.
MalformedInBatch(c) ==
    /\ status = Ready(c)
    /\ ~poisoned[c]
    /\ \A i \in DOMAIN responder[c] : responder[c][i].id \in DOMAIN requests_params[c]
    /\ \E i \in DOMAIN responder[c] : ~Parses(responder[c][i].value)

\* C16: a response whose payload does not deserialize is dropped on its own:
\* its entry leaves the table and no map gets an entry for it, every other
\* response of the batch is processed as if it were not there, the status is
\* what it was and no Failed event is posted.
C16_MalformedDroppedAlone ==
    [][\A c \in Clients :
        MalformedInBatch(c) =>
          LET ch == responder[c]
              t == requests_params[c]
          IN  /\ ~call'.panic
              /\ call'.taken = ch
              /\ responder'[c] = <<>>
              /\ requests_params'[c] =
                     [id \in DOMAIN t \ {ch[i].id : i \in DOMAIN ch} |-> t[id]]
              /\ attribute_macro_resolution' =
                     Resolved(attribute_macro_resolution, ch, t, "Attribute")
              /\ derive_macro_resolution' =
                     Resolved(derive_macro_resolution, ch, t, "Derive")
              /\ inline_macro_resolution' =
                     Resolved(inline_macro_resolution, ch, t, "Inline")
              /\ status' = status
              /\ status_change' = status_change]_vars

\* A drain took a malformed response and, after it, one that parsed and was
\* written to its map.
C16_ParsedAfterMalformed ==
    /\ Drained /\ ~call.panic
    /\ Len(call.taken) = 2
    /\ ~Parses(call.taken[1].value)
    /\ Parses(call.taken[2].value)
    /\ call.written # {}
    /\ requests_params[1] = EmptyMap


\* The positions of the batch buffered on client c whose id has no entry in
\* the table.
Unknown(c) ==
    {i \in DOMAIN responder[c] : responder[c][i].id \notin DOMAIN requests_params[c]}

\* C17: a response whose id has no entry in the table is not passed over: the
\* drain stops at it with a fatal error (a panic), and writes none of the
\* maps, the results of the responses before it included.
C17_UnknownIdIsFatal ==
    [][\A c \in Clients :
        status = Ready(c) /\ ~poisoned[c] /\ Unknown(c) # {} =>
          LET first == CHOOSE i \in Unknown(c) : \A j \in Unknown(c) : i <= j
          IN  /\ call'.panic
              /\ call'.taken = SubSeq(responder[c], 1, first)
              /\ call'.written = {}
              /\ Resolutions' = Resolutions]_vars

\* A drain took a response that parsed and then stopped at one without an
\* entry; no map holds a result.
C17_StoppedAfterParsedResult ==
    /\ Drained /\ call.panic
    /\ Len(call.taken) = 2
    /\ Parses(call.taken[1].value)
    /\ Resolutions = <<EmptyMap, EmptyMap, EmptyMap>>


\* The resolution map of a request kind.
Resolution(kind) ==
    CASE kind = "Attribute" -> attribute_macro_resolution
      [] kind = "Derive" -> derive_macro_resolution
      [] kind = "Inline" -> inline_macro_resolution

\* C18: a resolution map is written to the database only if an entry of it
\* changed: a drain whose parsed results all equal the values stored writes
\* no map.
C18_WrittenOnlyIfChanged ==
    [][\A c \in Clients :
        /\ status = Ready(c) /\ ~poisoned[c]
        /\ call'.op = "apply_proc_macro_server_responses" /\ ~call'.panic
        => \A kind \in call'.written : Resolution(kind)' # Resolution(kind)]_vars


Plugins == <<macro_plugins, inline_macro_plugins>>

\* C20: with macro expansion disabled by the configuration, initialize does
\* nothing: no process is spawned and no thread started, FatalFailed is not
\* written to the mailbox, and the status, the plugins and retries_left are as
\* its caller left them: the post-sync hook (status Disabled, the mailbox
\* empty) changes nothing at all, and the Failed arm of update_state only what
\* should_initialize did before the call.
C20_DisabledInitializeIsNoOp ==
    [][disable_proc_macros =>
          /\ nclients' = nclients
          /\ \A c \in Clients : boot[c] = "none" => boot'[c] = "none"
          /\ status_change' = FatalFailed => status_change = FatalFailed
          /\ last_written' = FatalFailed => last_written = FatalFailed
          /\ status = Disabled /\ status_change = None =>
                /\ status' = Disabled
                /\ status_change' = status_change
                /\ retries_left' = retries_left
                /\ Plugins' = Plugins
          /\ ConsumesFailed =>
                /\ status' \in {status, InitializingFailed}
                /\ status' = InitializingFailed /\ status # InitializingFailed =>
                       retries_left' = 0
                /\ status_change' = None
                /\ Plugins' = Plugins]_vars

\* With expansion disabled, the controller consumed a Failed event, found a
\* retry left and called initialize: the status is still Initializing and no
\* second client was made.
C20_DisabledRetryStartedNothing ==
    /\ disable_proc_macros
    /\ call.op = "maybe_update_state"
    /\ failures = 1
    /\ retries_left = RetryBudget - 1
    /\ status = Initializing
    /\ nclients = 1
    /\ status_change = None


\* C21: the trigger is idempotent: an attempt is started (by initialize, from
\* the post-sync hook or from the Failed arm) only when no attempt is running,
\* and then exactly one.
C21_TriggerStartsOneAttempt ==
    [][nclients' # nclients => InFlight = {} /\ nclients' = nclients + 1]_vars


\* A step in which initialize started an attempt: a client was made.
StartsAttempt == nclients' = nclients + 1

\* A step in which initialize wrote FatalFailed to the mailbox.
PostsFatalFailed ==
    /\ status_change' = FatalFailed
    /\ status_change # FatalFailed \/ unread' # unread

\* C22: with expansion enabled initialize does one of two things. The spawn
\* done, the status is Initializing and one bootstrap thread is started, and
\* initialize writes nothing to the mailbox; the spawn failed, FatalFailed is in
\* the mailbox when initialize returns, no thread is started and the status is
\* what it was.
C22_InitializeEitherOr ==
    [][/\ StartsAttempt =>
            /\ ~disable_proc_macros
            /\ status' = Initializing
            /\ boot' = [boot EXCEPT ![nclients'] = "send"]
            /\ status_change' \in {status_change, None}
            /\ unread' \in {unread, 0}
       /\ PostsFatalFailed =>
            /\ ~disable_proc_macros
            /\ nclients' = nclients
            /\ boot' = boot
            /\ status' = status
            /\ last_written' = FatalFailed
       /\ (ConsumesFailed /\ ~disable_proc_macros /\ call'.result
                          /\ retries_left' \notin {0, retries_left})
            => StartsAttempt \/ PostsFatalFailed]_vars

\* The controller consumed a Failed event while the status was Ready and the
\* spawn of the retry failed: FatalFailed is in the mailbox, the status is
\* still Ready and no second client was made.
C22_SpawnFailedStatusKept ==
    /\ call.op = "maybe_update_state"
    /\ failures = 1
    /\ status_change = FatalFailed
    /\ unread = 1
    /\ status.kind = "Ready"
    /\ nclients = 1


\* C23: maybe_update_state returns true exactly when the state of the database
\* others can observe (the client status, the plugins, a resolution map)
\* changed during the call.
C23_TrueIffDatabaseChanged ==
    [][/\ (call'.op = "maybe_update_state" /\ ~call'.panic /\ call'.result)
            => (status' # status \/ Plugins' # Plugins \/ Resolutions' # Resolutions)
       /\ (Plugins' # Plugins \/ Resolutions' # Resolutions)
            => (call'.op = "maybe_update_state" /\ call'.result)]_vars


\* A step that is a call of run_debounced.
Debounces == runs' = runs + 1

\* C24: the first call of run_debounced runs the job; a call runs the job if
\* and only if at least the interval has passed since last_run, the time of
\* the last call that ran it; a call that does not run the job leaves last_run
\* as it was.
C24_DebouncedByInterval ==
    [][Debounces =>
          /\ ~call'.panic
          /\ runs = 0 => call'.result
          /\ call'.result <=> clock - last_run >= Interval
          /\ ~call'.result => last_run' = last_run
          /\ call'.result => last_run' >= clock]_vars


\* The overrides of a database by file: the pairs of a file and the content
\* its override holds.
OverridesByFile(table, overrides) ==
    {<<table[id], overrides[id]>> : id \in DOMAIN overrides}

\* C26: after a swap the overrides of the new database are, under the ids the
\* files have there, those of the old database for the files that an open URI
\* names, with the same content, and no other.
C26_SwapKeepsOpenOverrides ==
    [][swaps' = swaps + 1 =>
          /\ DOMAIN file_overrides' \subseteq DOMAIN interned'
          /\ OverridesByFile(interned', file_overrides') =
                 {pair \in OverridesByFile(interned, file_overrides) :
                     \E uri \in open_files : UrlFile(uri) = pair[1]}]_vars

\* The database was swapped with two files open under overrides that differ;
\* a third URI open names no file.
C26_SwappedWithOverrides ==
    /\ swaps = 1
    /\ {"u1", "u2", "u4"} \subseteq open_files
    /\ Cardinality(DOMAIN file_overrides) = 2
    /\ \E id \in DOMAIN file_overrides : interned[id] = "f1" /\ file_overrides[id] = "c1"
    /\ \E id \in DOMAIN file_overrides : interned[id] = "f2" /\ file_overrides[id] = "c2"
    /\ interned = <<"f2", "f1">>

\* The ids of client c that are somewhere: the keys of its table, the ids the
\* workers are about to insert, and those of the requests the server holds.
IssuedIds(c) ==
    DOMAIN requests_params[c]
    \cup {worker[w].id : w \in {v \in DOMAIN worker :
                                   worker[v].pc = "insert" /\ worker[v].client = c}}
    \cup {request.id : request \in requester[c]}

\* A step of send_request_tracked of worker w whose send succeeded: the insert
\* is what is left.
SentTracked(w) == worker[w].pc = "ready" /\ worker'[w].pc = "insert"

\* C25: within one client the generator moves by one id at a time and the id
\* a send is given is the next one, above every id issued before, also with
\* several workers sending; the ids two workers are about to insert differ,
\* and an insert adds a key the table did not hold.
C25_IdsDistinctIncreasing ==
    [][/\ \A c \in Clients :
              c <= nclients /\ id_generator'[c] # id_generator[c] =>
                  \/ id_generator'[c] = id_generator[c] + 1
                  \/ \A w \in DOMAIN worker : worker'[w].client # c
       /\ \A w \in DOMAIN worker :
              LET c == worker[w].client
              IN  /\ SentTracked(w) =>
                      /\ id_generator'[c] = id_generator[c] + 1
                      /\ worker'[w].id = id_generator[c]
                      /\ \A id \in IssuedIds(c) : id < worker'[w].id
                  /\ TrackedInsert(w) /\ ~poisoned[c] =>
                      /\ worker[w].id \notin DOMAIN requests_params[c]
                      /\ DOMAIN requests_params'[c] =
                             DOMAIN requests_params[c] \cup {worker[w].id}
                  /\ \A v \in DOMAIN worker :
                         v # w /\ worker[v].pc = "insert" /\ worker[w].pc = "insert"
                         /\ worker[v].client = c => worker[v].id # worker[w].id]_vars

\* Two workers have sent on the same client and neither has inserted yet,
\* the later id waiting with the first worker; the table already holds an
\* entry.
C25_TwoSendersPending ==
    /\ worker[1].pc = "insert" /\ worker[2].pc = "insert"
    /\ worker[1].client = worker[2].client
    /\ worker[1].id > worker[2].id
    /\ requests_params[worker[1].client] # EmptyMap

\* C27: a snapshot reads, in each field, what the state held when it was
\* taken, whatever the owner has written through deref_mut since; taking a
\* snapshot leaves the owner's values as they were and gives the snapshot
\* those values.
C27_SnapshotIsolation ==
    [][\A s \in Snapshots : \A f \in Fields :
          /\ arcs.snapshot[s] # NoSnapshot /\ arcs'.snapshot[s] # NoSnapshot =>
                 SnapshotDeref(arcs', s, f) = SnapshotDeref(arcs, s, f)
          /\ arcs.snapshot[s] = NoSnapshot /\ arcs'.snapshot[s] # NoSnapshot =>
                 /\ OwnedDeref(arcs', f) = OwnedDeref(arcs, f)
                 /\ SnapshotDeref(arcs', s, f) = OwnedDeref(arcs, f)
          /\ arcs'.snapshot[s] # NoSnapshot =>
                 SnapshotDeref(arcs', s, f) = arcs'.taken[s][f]]_vars

\* Two snapshots taken at different moments are out, and the owner has
\* written both fields since the later one: the three read different open
\* files.
C27_OwnerMovedOn ==
    /\ arcs.snapshot[1] # NoSnapshot /\ arcs.snapshot[2] # NoSnapshot
    /\ SnapshotDeref(arcs, 1, "open_files") = {"u1"}
    /\ SnapshotDeref(arcs, 2, "open_files") = {"u1", "u2"}
    /\ OwnedDeref(arcs, "open_files") = {"u2"}
    /\ SnapshotDeref(arcs, 2, "config") # OwnedDeref(arcs, "config")

\* The closure was cancelled by the incremental layer: it unwound with
\* Cancelled, or panicked on salsa's revision assertion, whose message is a
\* &str that holds the assertion text between any other text.
CancelledByLayer(computation) ==
    /\ computation.outcome = "panics"
    /\ \/ computation.payload = "Cancelled"
       \/ /\ computation.payload = "&str"
          /\ \E before \in Messages, after \in Messages :
                 computation.message = before \o SalsaAssertion \o after

\* C28: catch_panics returns Ok with the value of a closure that completes,
\* an error with code ServerCancelled for one that the incremental layer
\* cancelled, and an error with code InternalError for any other panic.
C28_CancellationNotFatal ==
    task.result # NotRun =>
        /\ task.computation.outcome = "returns" =>
               task.result = Ok(task.computation.value)
        /\ CancelledByLayer(task.computation) =>
               task.result = Err("ServerCancelled")
        /\ task.computation.outcome = "panics" /\ ~CancelledByLayer(task.computation) =>
               task.result = Err("InternalError")

\* catch_panics has returned ServerCancelled for a closure that panicked with
\* the assertion text in the middle of a longer message.
C28_AssertionInsideMessage ==
    /\ task.result = Err("ServerCancelled")
    /\ task.computation.payload = "&str"
    /\ Len(task.computation.message) = 3
    /\ task.computation.message[1] = "other text"

\* C29: a Ready event of a bootstrap attempt that is in the mailbox stays
\* there until maybe_update_state takes it: no write of another thread, or of
\* another attempt, replaces it.
C29_BootstrapEventReadOnce ==
    [][status_change.kind = "Ready" =>
          status_change' = status_change \/ ConsumesReady]_vars

\* C30: when a Failed event is consumed with retry budget remaining the
\* status becomes Initializing, and it stays Initializing until the next
\* event is consumed.
C30_InitializingWhileRetrying ==
    [][/\ ConsumesFailed /\ retries_left > 1 => status' = Initializing
       /\ status = Initializing /\ status' # Initializing => status_change # None]_vars

\* C31: when a Failed event is consumed while the database reports Ready with
\* a client whose transport is broken, the status afterwards is Initializing
\* or InitializingFailed.
C31_BrokenClientNotReady ==
    [][ConsumesFailed /\ status.kind = "Ready" /\ ~connected[status.client] =>
          status' \in {Initializing, InitializingFailed}]_vars

\* C32: a client is in the status of the database, or in a worker's
\* snapshot, only after its fetch_defined_macros returned Ok; until then
\* the bootstrap request is the only request sent on it and its table is
\* empty.
C32_NoRequestBeforeBootstrap ==
    \A c \in Clients :
        /\ (status.client = c \/ \E w \in DOMAIN worker : worker[w].client = c) =>
               boot[c] = "ok"
        /\ boot[c] # "ok" =>
               /\ requests_params[c] = EmptyMap
               /\ \A request \in requester[c] :
                      request.method = "DefinedMacros" /\ request.id = boot_id[c]

\* A worker has sent an expansion request on the client of the Ready status,
\* whose bootstrap request was answered before.
C32_SentAfterBootstrap ==
    /\ status.kind = "Ready"
    /\ boot[status.client] = "ok"
    /\ boot_response[status.client].id = boot_id[status.client]
    /\ \E request \in requester[status.client] :
           request.method # "DefinedMacros" /\ request.id > boot_id[status.client]

\* No send_request_tracked on client c is between its send and its insert.
Quiescent(c) ==
    \A w \in DOMAIN worker : ~(worker[w].pc = "insert" /\ worker[w].client = c)

\* C33: with no send in progress on a client, every expansion request the
\* server holds and every expansion response still buffered has its id in the
\* table; the table gains a key only by the insert of a request that was sent;
\* the id of the bootstrap request is never a key; and a drain leaves no entry
\* for a response it took.
C33_TableTracksOpenRequests ==
    [][\A c \in Clients :
          /\ Quiescent(c) =>
                 /\ \A request \in requester[c] :
                        request.method # "DefinedMacros" =>
                            request.id \in DOMAIN requests_params[c]
                 /\ boot[c] = "ok" =>
                        \A k \in DOMAIN responder[c] :
                            responder[c][k].id \in DOMAIN requests_params[c]
          /\ DOMAIN requests_params'[c] \ DOMAIN requests_params[c] \subseteq
                 {worker[w].id : w \in {v \in DOMAIN worker :
                                           worker[v].pc = "insert" /\ worker[v].client = c}}
          /\ boot[c] # "none" => boot_id[c] \notin DOMAIN requests_params[c]
          /\ status = Ready(c) /\ call'.op # "none" =>
                 \A k \in DOMAIN call'.taken :
                     call'.taken[k].id \notin DOMAIN requests_params'[c]]_vars

\* C34: a drain on the Ready client takes the responses from the front of
\* the channel and leaves the rest buffered, none of them
\* both taken and left; when it completes nothing is left; on an empty channel
\* it takes nothing and changes no map; and an entry of a resolution map
\* changes only to the value of a response taken by that very drain, answering
\* a request of that kind and those params.
C34_DrainTakesEachOnce ==
    [][\A c \in Clients :
        /\ status = Ready(c)
        /\ call'.op = "apply_proc_macro_server_responses"
        => /\ call'.taken \o responder'[c] = responder[c]
           /\ ~call'.panic => responder'[c] = <<>>
           /\ responder[c] = <<>> =>
                  call'.taken = <<>> /\ Resolutions' = Resolutions
           /\ \A kind \in Kinds : \A p \in DOMAIN Resolution(kind)' :
                  (p \notin DOMAIN Resolution(kind)
                   \/ Resolution(kind)'[p] # Resolution(kind)[p]) =>
                      \E i \in DOMAIN call'.taken :
                          /\ call'.taken[i].value = Resolution(kind)'[p]
                          /\ call'.taken[i].id \in DOMAIN requests_params[c]
                          /\ requests_params[c][call'.taken[i].id] =
                                 [kind |-> kind, params |-> p]]_vars

\* A drain has found the channel empty after an earlier drain applied a
\* response, while another request waits for its answer.
C34_DrainedAgainEmpty ==
    /\ Drained /\ call.taken = <<>> /\ ~call.panic
    /\ status.kind = "Ready" /\ ~poisoned[status.client]
    /\ attribute_macro_resolution # EmptyMap
    /\ requests_params[status.client] # EmptyMap

\* C35: once a drain has met a response with no matching request, a later
\* maybe_update_state on the same Ready client, with nothing in the mailbox,
\* runs to completion.
C35_DrainFailureNotSticky ==
    [][\A c \in Clients :
          /\ poisoned[c] /\ status = Ready(c) /\ status_change = None
          /\ call'.op = "maybe_update_state"
          => ~call'.panic]_vars

\* A step of maybe_swap_database that went on to swap_database: the time of
\* the last swap has moved.
SwapAttempted == last_replace' # last_replace

\* C36: in swap_database the fresh database is assigned to state.db only
\* after its warm-up pass; and when the construction of the fresh database
\* fails under catch_panics the call returns that error, with no warm-up and
\* no assignment, and state.db keeps its files and overrides.
C36_WarmUpBeforeAssign ==
    [][SwapAttempted =>
          /\ \A i \in DOMAIN swap_log' :
                 swap_log'[i] \in {"assign warm", "assign cold"} =>
                     \E j \in 1..(i - 1) : swap_log'[j] = "warm up"
          /\ task'.result.ok =>
                 /\ call'.result
                 /\ swaps' = swaps + 1
                 /\ \E i \in DOMAIN swap_log' : swap_log'[i] = "assign warm"
          /\ ~task'.result.ok =>
                 /\ ~call'.result
                 /\ task'.result.code \in {"ServerCancelled", "InternalError"}
                 /\ swap_log' = <<"new db failed">>
                 /\ interned' = interned
                 /\ file_overrides' = file_overrides
                 /\ swaps' = swaps]_vars

\* swap_database has returned ServerCancelled for a cancelled construction,
\* and the database still has the overrides of both files.
C36_CancelledSwapKeptDb ==
    /\ call.op = "maybe_swap_database" /\ ~call.result /\ ~call.panic
    /\ task.result = Err("ServerCancelled")
    /\ swap_log = <<"new db failed">>
    /\ swaps = 0
    /\ DOMAIN file_overrides = {1, 2}

\* C37: maybe_swap_database swaps exactly when the time since the last swap
\* is at least the interval; otherwise it returns Ok and leaves the database
\* and the time of the last swap as they were. It does not panic.
C37_SwapGatedAsDebouncer ==
    [][call'.op = "maybe_swap_database" /\ (call' # call \/ SwapAttempted) =>
          /\ ~call'.panic
          /\ SwapAttempted <=> clock - last_replace >= DbReplaceInterval
          /\ ~SwapAttempted =>
                 /\ call'.result
                 /\ interned' = interned /\ file_overrides' = file_overrides
                 /\ swaps' = swaps]_vars

\* C38: right after a swap the database does not report Ready and its three
\* resolution maps are empty; and whenever it reports Ready after a swap, the
\* client is one of a bootstrap attempt the controller started after the
\* swap.
C38_SwapDiscardsClientState ==
    [][/\ swaps' = swaps + 1 =>
              /\ status'.kind # "Ready"
              /\ Resolutions' = <<EmptyMap, EmptyMap, EmptyMap>>
       /\ swaps' >= 1 /\ status'.kind = "Ready" => status'.client > old_clients']_vars

\* C39: retries_left is within 0..3 in every state, never increases, goes
\* down by exactly one with each Failed event consumed, and a Failed event is
\* never consumed with retries_left at 0, whatever the status is by then.
C39_RetriesWithinBudget ==
    [][/\ retries_left' \in 0..RetryBudget
       /\ retries_left' <= retries_left
       /\ ConsumesFailed => retries_left > 0 /\ retries_left' = retries_left - 1
       /\ ~ConsumesFailed => retries_left' = retries_left]_vars

\* C40: under the fairness of SpecLive a status of Initializing leads to a
\* status of Ready or InitializingFailed, also when proc macros are disabled
\* by a configuration reload or a spawn fails while a retry is pending.
C40_InitializingSettles ==
    (status = Initializing) ~> (status.kind \in {"Ready", "InitializingFailed"})

====
